---- MODULE Spec2Model ----
(***************************************************************************)
(* Model of src/app.py: the ASRS v1.1 questionnaire application.           *)
(*                                                                         *)
(* Two specifications share the module:                                    *)
(*   SpecCalc  applies the pure function calculer_score_asrs, then the     *)
(*             record assembly of show_questionnaire, to inputs drawn from *)
(*             a bounded family (valid and invalid response sets);         *)
(*   Spec      is the Streamlit session: consent form, page routing,       *)
(*             questionnaire submissions and the Google Sheets store.      *)
(*                                                                         *)
(* Python dicts keep insertion order, and the order of save_data decides   *)
(* the columns of the sheet: a dict is modelled as a sequence of           *)
(* <<key, value>> pairs.  The configuration (config.json) is a record      *)
(* whose field 'seuils_partie_a' may be absent.  Percentages are integers   *)
(* in tenths.  The clock ticks at each questionnaire submission, so that   *)
(* the timestamp of a record names its submission.                         *)
(***************************************************************************)
EXTENDS Integers, Sequences, FiniteSets, TLC

VARIABLES
    config,       \* the loaded configuration (load_config)
    session,      \* st.session_state
    pageWidget,   \* value of the sidebar radio
    radioShown,   \* whether the last run rendered the sidebar radio
    screen,       \* what the last run of main() rendered
    secrets,      \* the keys st.secrets holds
    sheets,       \* the spreadsheet: worksheet title -> rows (sequences of cells)
    clock,        \* the clock: number of questionnaire submissions so far
    event,        \* the form the last run handled, with the outcome of its handler
    responses,    \* show_questionnaire's local responses (empty outside a submission)
    scores,       \* its local scores, the report of calculer_score_asrs
    save_data,    \* its local save_data
    appends,      \* timestamp -> number of append_row(values) calls made for it
    pc            \* position within SpecCalc ("app" under Spec)

vars == <<config, session, pageWidget, radioShown, screen, secrets, sheets, clock,
          event, responses, scores, save_data, appends, pc>>

----------------------------------------------------------------------------
(* Bounds of the model *)

\* at most MaxSubmissions questionnaire submissions in a behaviour
MaxSubmissions == 2

\* under SpecCalc a response set differs from a uniform one in at most MaxEdits
\* items (the sets Staircase(t) and the invalid ones are added to these)
MaxEdits == 1

(* Program constants *)

NbItems == 18
NbPartieA == 6
SeuilPartieB == 3
SeuilScreening == 4
ScoreMax == 72
\* len(config['echelle_likert']): the 5-point scale the score_max comment assumes
ScaleLen == 5

----------------------------------------------------------------------------
(* Ordered dicts *)

DictKeys(d) == [i \in 1..Len(d) |-> d[i][1]]

DictValues(d) == [i \in 1..Len(d) |-> d[i][2]]

HasKey(d, k) == \E i \in 1..Len(d) : d[i][1] = k

\* dict.get(k, default)
DictGet(d, k, default) ==
    LET at == {i \in 1..Len(d) : d[i][1] = k}
    IN  IF at = {} THEN default ELSE d[CHOOSE i \in at : TRUE][2]

\* d[k]
DictAt(d, k) == d[CHOOSE i \in 1..Len(d) : d[i][1] = k][2]

\* d[k] = v : an existing key keeps its position, a new key goes last
DictSet(d, k, v) ==
    IF HasKey(d, k)
    THEN [i \in 1..Len(d) |-> IF d[i][1] = k THEN <<k, v>> ELSE d[i]]
    ELSE Append(d, <<k, v>>)

\* d.update(other): the keys d has keep their position and take other's value,
\* the keys it lacks follow in other's order
DictUpdate(d, other) ==
    [i \in 1..Len(d) |-> <<d[i][1], DictGet(other, d[i][1], d[i][2])>>]
    \o SelectSeq(other, LAMBDA p : ~HasKey(d, p[1]))

\* config.get(key, default) on the configuration record
ConfigGet(cfg, key, default) ==
    IF key \in DOMAIN cfg THEN cfg[key] ELSE default

\* f'Q{i}' and f'Q{i}_text'
QKey(i) == <<"Q1", "Q2", "Q3", "Q4", "Q5", "Q6", "Q7", "Q8", "Q9", "Q10", "Q11",
             "Q12", "Q13", "Q14", "Q15", "Q16", "Q17", "Q18">>[i]

QTextKey(i) == <<"Q1_text", "Q2_text", "Q3_text", "Q4_text", "Q5_text", "Q6_text",
                 "Q7_text", "Q8_text", "Q9_text", "Q10_text", "Q11_text", "Q12_text",
                 "Q13_text", "Q14_text", "Q15_text", "Q16_text", "Q17_text",
                 "Q18_text">>[i]

----------------------------------------------------------------------------
(* calculer_score_asrs *)

DefaultSeuils == <<2, 3, 2, 2, 3, 3>>

\* mutant: the configured thresholds are ignored
SeuilsA_IgnoreConfig(cfg) == DefaultSeuils

SeuilsA(cfg) == ConfigGet(cfg, "seuils_partie_a", DefaultSeuils)

\* score_i of item i: responses.get(f'Q{i}', 0)
ScoreItem(resp, i) == DictGet(resp, QKey(i), 0)

\* mutant: the loop stops one item early
RECURSIVE SumItems_ShortRange(_, _, _)
SumItems_ShortRange(resp, lo, hi) ==
    IF lo >= hi THEN 0
    ELSE ScoreItem(resp, lo) + SumItems_ShortRange(resp, lo + 1, hi)

\* the accumulation of a for loop over items lo..hi
RECURSIVE SumItems(_, _, _)
SumItems(resp, lo, hi) ==
    IF lo > hi THEN 0 ELSE ScoreItem(resp, lo) + SumItems(resp, lo + 1, hi)

\* mutant: a strict threshold, score_i > seuils_a[i]
RECURSIVE CountPositifsA_Strict(_, _, _)
CountPositifsA_Strict(resp, seuils, i) ==
    IF i > NbPartieA THEN 0
    ELSE (IF ScoreItem(resp, i) > seuils[i] THEN 1 ELSE 0)
         + CountPositifsA_Strict(resp, seuils, i + 1)

\* the positive count of the Part A loop: score_i >= seuils_a[i]
RECURSIVE CountPositifsA(_, _, _)
CountPositifsA(resp, seuils, i) ==
    IF i > NbPartieA THEN 0
    ELSE (IF ScoreItem(resp, i) >= seuils[i] THEN 1 ELSE 0)
         + CountPositifsA(resp, seuils, i + 1)

\* the positive count of the Part B loop: score_i >= 3
RECURSIVE CountPositifsB(_, _)
CountPositifsB(resp, i) ==
    IF i > NbItems THEN 0
    ELSE (IF ScoreItem(resp, i) >= SeuilPartieB THEN 1 ELSE 0)
         + CountPositifsB(resp, i + 1)

\* mutant: more than 4 positive items are needed
ScreeningPositif_Strict(items_positifs_a) == items_positifs_a > SeuilScreening

ScreeningPositif(items_positifs_a) == items_positifs_a >= SeuilScreening

calculer_score_asrs(resp, cfg) ==
    LET seuils_a == SeuilsA(cfg)
        score_partie_a == SumItems(resp, 1, NbPartieA)
        items_positifs_a == CountPositifsA(resp, seuils_a, 1)
        score_partie_b == SumItems(resp, NbPartieA + 1, NbItems)
        items_positifs_b == CountPositifsB(resp, NbPartieA + 1)
        score_total == score_partie_a + score_partie_b
    IN  [score_total |-> score_total,
         score_max |-> ScoreMax,
         score_partie_a |-> score_partie_a,
         score_partie_b |-> score_partie_b,
         items_positifs_a |-> items_positifs_a,
         items_positifs_b |-> items_positifs_b,
         screening_positif |-> ScreeningPositif(items_positifs_a)]

----------------------------------------------------------------------------
(* The configuration object (config.json) *)

Echelle == <<"Jamais", "Rarement", "Parfois", "Souvent", "Tres souvent">>

\* config.json without the key 'seuils_partie_a'
ConfigSansSeuils ==
    [echelle_likert |-> Echelle,
     questionnaire_pre |-> [questions |-> <<
          "pre_1", "pre_2", "pre_3", "pre_4", "pre_5", "pre_6",
          "pre_7", "pre_8", "pre_9", "pre_10", "pre_11", "pre_12",
          "pre_13", "pre_14", "pre_15", "pre_16", "pre_17", "pre_18" >>],
     questionnaire_post |-> [questions |-> <<
          "post_1", "post_2", "post_3", "post_4", "post_5", "post_6",
          "post_7", "post_8", "post_9", "post_10", "post_11", "post_12",
          "post_13", "post_14", "post_15", "post_16", "post_17", "post_18" >>],
     questionnaire_retrospectif |-> [questions |-> <<
          "retro_1", "retro_2", "retro_3", "retro_4", "retro_5", "retro_6",
          "retro_7", "retro_8", "retro_9", "retro_10", "retro_11", "retro_12",
          "retro_13", "retro_14", "retro_15", "retro_16", "retro_17", "retro_18" >>]]

\* config.json with the key 'seuils_partie_a'
ConfigAvecSeuils(seuils) ==
    [k \in DOMAIN ConfigSansSeuils \cup {"seuils_partie_a"} |->
        IF k = "seuils_partie_a" THEN seuils ELSE ConfigSansSeuils[k]]

QuestionnaireTypes == {"pre", "post", "retrospectif"}

\* config['questionnaire_<type>']['questions']
Questions(cfg, qtype) ==
    IF qtype = "pre" THEN cfg.questionnaire_pre.questions
    ELSE IF qtype = "post" THEN cfg.questionnaire_post.questions
    ELSE cfg.questionnaire_retrospectif.questions

----------------------------------------------------------------------------
(* st.session_state *)

EmptySession == [k \in {} |-> ""]

SessionGet(sess, k, default) == IF k \in DOMAIN sess THEN sess[k] ELSE default

SessionSet(sess, k, v) ==
    [x \in DOMAIN sess \cup {k} |-> IF x = k THEN v ELSE sess[x]]

\* datetime.now().isoformat() when the clock reads n
Stamp(n) == <<"T0", "T1", "T2", "T3", "T4", "T5", "T6", "T7", "T8">>[n + 1]

----------------------------------------------------------------------------
(* show_questionnaire: the record built on submission *)

\* mutant: the percentage is truncated, not rounded
RoundTenths_Truncate(num, den) == (1000 * num) \div den

\* round(x, 1) of x = 100 * num / den, in tenths (ties to even, as Python rounds)
RoundTenths(num, den) ==
    LET q == (1000 * num) \div den
        r == (1000 * num) % den
    IN  IF 2 * r < den THEN q
        ELSE IF 2 * r > den THEN q + 1
        ELSE IF q % 2 = 0 THEN q ELSE q + 1

\* round((scores['score_total'] / scores['score_max']) * 100, 1), in tenths
ScorePourcentage(sc) == RoundTenths(sc.score_total, sc.score_max)

\* the responses dict the form builds: Q{i}, Q{i}_text for the 18 radios, then the
\* qualitative answers of the post and retrospective variants
FormItems(questions, answers) ==
    [k \in 1..(2 * NbItems) |->
        IF k % 2 = 1
        THEN <<QKey((k + 1) \div 2), answers[(k + 1) \div 2]>>
        ELSE <<QTextKey(k \div 2), questions[k \div 2]>>]

FormResponses(cfg, qtype, answers, extra) ==
    FormItems(Questions(cfg, qtype), answers)
    \o (IF qtype \in {"post", "retrospectif"}
        THEN << <<"satisfaction", extra.satisfaction>> >> ELSE <<>>)
    \o (IF qtype = "retrospectif"
        THEN << <<"amelioration_percue", extra.amelioration>> >> ELSE <<>>)
    \o (IF qtype \in {"post", "retrospectif"}
        THEN << <<"commentaires", extra.commentaires>> >> ELSE <<>>)

\* save_data = {...}; save_data.update(responses)
BuildSaveData(now, qtype, sess, sc, resp) ==
    DictUpdate(
      << <<"timestamp", Stamp(now)>>,
         <<"type_questionnaire", qtype>>,
         <<"email", SessionGet(sess, "email", "")>>,
         <<"age", SessionGet(sess, "age", "")>>,
         <<"genre", SessionGet(sess, "genre", "")>>,
         <<"score_total", sc.score_total>>,
         <<"score_max", sc.score_max>>,
         <<"score_partie_a", sc.score_partie_a>>,
         <<"score_partie_b", sc.score_partie_b>>,
         <<"items_positifs_a", sc.items_positifs_a>>,
         <<"items_positifs_b", sc.items_positifs_b>>,
         <<"screening_positif", sc.screening_positif>>,
         <<"score_pourcentage", ScorePourcentage(sc)>> >>,
      resp)

----------------------------------------------------------------------------
(* The Google Sheets store *)

NoSheets == [k \in {} |-> <<>>]

\* questionnaire_type.upper()
Upper(qtype) ==
    IF qtype = "pre" THEN "PRE" ELSE IF qtype = "post" THEN "POST" ELSE "RETROSPECTIF"

\* what the environment does to one connection attempt: the calls to Google
\* succeed or raise
ConnOutcomes == {"ok", "exception"}

SecretKeys == {"gsheet_credentials", "gsheet_url"}

\* the first call of save_to_gsheet that raises, if any
SaveFailures == {"none", "lookup", "add", "header", "values"}

AddSheet(sh, title) ==
    [t \in DOMAIN sh \cup {title} |-> IF t = title THEN <<>> ELSE sh[t]]

AppendRow(sh, title, row) == [sh EXCEPT ![title] = Append(@, row)]

\* connect_to_gsheet: a spreadsheet or None, and the warning shown
connect_to_gsheet(secr, conn) ==
    IF "gsheet_credentials" \notin secr
    THEN [spreadsheet |-> FALSE, messages |-> << <<"warning", "no_credentials">> >>]
    ELSE IF conn = "exception"
    THEN [spreadsheet |-> FALSE, messages |-> << <<"warning", "exception">> >>]
    ELSE IF "gsheet_url" \in secr
    THEN [spreadsheet |-> TRUE, messages |-> <<>>]
    ELSE [spreadsheet |-> FALSE, messages |-> << <<"warning", "no_url">> >>]

\* mutant: a failed append of the values row is tried again
SaveValues_Retry(sh, worksheet_name, data, fail) ==
    [sheets |-> AppendRow(sh, worksheet_name, DictValues(data)),
     success |-> TRUE,
     appends |-> IF fail = "values" THEN 2 ELSE 1,
     messages |-> <<>>]

\* the append of the values row and the return of save_to_gsheet
SaveValues(sh, worksheet_name, data, fail) ==
    IF fail = "values"
    THEN [sheets |-> sh, success |-> FALSE, appends |-> 1,
          messages |-> << <<"error", "sauvegarde">> >>]
    ELSE [sheets |-> AppendRow(sh, worksheet_name, DictValues(data)),
          success |-> TRUE, appends |-> 1, messages |-> <<>>]

save_to_gsheet(sh, worksheet_name, data, fail) ==
    LET failed(s) == [sheets |-> s, success |-> FALSE, appends |-> 0,
                      messages |-> << <<"error", "sauvegarde">> >>]
    IN  IF worksheet_name \in DOMAIN sh /\ fail # "lookup"
        THEN SaveValues(sh, worksheet_name, data, fail)
        ELSE \* except: add_worksheet, which rejects a title that exists
             IF worksheet_name \in DOMAIN sh \/ fail = "add"
             THEN failed(sh)
             ELSE IF fail = "header"
                  THEN failed(AddSheet(sh, worksheet_name))
                  ELSE SaveValues(
                         AppendRow(AddSheet(sh, worksheet_name), worksheet_name,
                                   DictKeys(data)),
                         worksheet_name, data, fail)

----------------------------------------------------------------------------
(* SpecCalc: calculer_score_asrs and the record assembly on a family of inputs *)

\* the thresholds a configuration may carry
SeuilsConfigures ==
    { <<2, 3, 2, 2, 3, 3>>, <<1, 1, 1, 1, 1, 1>>, <<4, 4, 4, 4, 4, 4>>,
      <<3, 2, 3, 3, 2, 2>> }

Configs == {ConfigSansSeuils} \cup {ConfigAvecSeuils(s) : s \in SeuilsConfigures}

\* the 18 answers as a responses dict {Q1: a[1], ..., Q18: a[18]}
AnswersDict(a) == [i \in 1..NbItems |-> <<QKey(i), a[i]>>]

Uniform(v) == AnswersDict([i \in 1..NbItems |-> v])

\* the response set of total t that fills the items in order
Staircase(t) ==
    AnswersDict([i \in 1..NbItems |->
        IF i <= t \div (ScaleLen - 1) THEN ScaleLen - 1
        ELSE IF i = t \div (ScaleLen - 1) + 1 THEN t % (ScaleLen - 1)
        ELSE 0])

\* the response sets at most n changed answers away from those of S
RECURSIVE Edited(_, _)
Edited(S, n) ==
    IF n = 0 THEN S
    ELSE Edited(S \cup {DictSet(r, QKey(i), v) :
                          r \in S, i \in 1..NbItems, v \in 0..(ScaleLen - 1)},
                n - 1)

RemoveKey(d, k) == SelectSeq(d, LAMBDA p : p[1] # k)

ValidInputs ==
    Edited({Uniform(v) : v \in 0..(ScaleLen - 1)}, MaxEdits)
    \cup {Staircase(t) : t \in 0..ScoreMax}

\* a valid response set with one item absent, negative or above the scale
InvalidInputs ==
    {RemoveKey(Uniform(v), QKey(i)) : v \in 0..(ScaleLen - 1), i \in 1..NbItems}
    \cup {DictSet(Uniform(v), QKey(i), w) :
            v \in 0..(ScaleLen - 1), i \in 1..NbItems, w \in {-1, ScaleLen}}

CalcInputs == ValidInputs \cup InvalidInputs

NoScores == [k \in {} |-> 0]

NoAppends == [k \in {} |-> 0]

BlankScreen == [page |-> "none", messages |-> <<>>, results |-> <<>>]

InitCalc ==
    /\ config \in Configs
    /\ responses \in CalcInputs
    /\ pc = "start"
    /\ session = EmptySession
    /\ pageWidget = "Consentement"
    /\ radioShown = FALSE
    /\ screen = BlankScreen
    /\ secrets = {}
    /\ sheets = NoSheets
    /\ clock = 0
    /\ event = [kind |-> "none"]
    /\ scores = NoScores
    /\ save_data = <<>>
    /\ appends = NoAppends

\* scores = calculer_score_asrs(responses, config)
CallCalculer ==
    /\ pc = "start"
    /\ scores' = calculer_score_asrs(responses, config)
    /\ event' = [kind |-> "call", outcome |-> "returned"]
    /\ pc' = "scored"
    /\ UNCHANGED <<config, session, pageWidget, radioShown, screen, secrets, sheets,
                   clock, responses, save_data, appends>>

\* save_data = {...}; save_data.update(responses)
AssembleRecord ==
    /\ pc = "scored"
    /\ save_data' = BuildSaveData(clock + 1, "pre", session, scores, responses)
    /\ clock' = clock + 1
    /\ pc' = "built"
    /\ UNCHANGED <<config, session, pageWidget, radioShown, screen, secrets, sheets,
                   event, responses, scores, appends>>

NextCalc == CallCalculer \/ AssembleRecord

SpecCalc == InitCalc /\ [][NextCalc]_vars

----------------------------------------------------------------------------
(* Properties of calculer_score_asrs and of the record, stated without the  *)
(* calculator's own loops                                                   *)

\* all 18 items present, each an integer of the scale
ValidResponses(resp) ==
    \A i \in 1..NbItems :
        \E j \in 1..Len(resp) :
            /\ resp[j][1] = QKey(i)
            /\ resp[j][2] \in 0..(ScaleLen - 1)

\* the answer given to item i of a valid response set
Answer(resp, i) == resp[CHOOSE j \in 1..Len(resp) : resp[j][1] = QKey(i)][2]

\* the sum of the answers to the items of I, counted value by value
AnswerSum(resp, I) ==
    1 * Cardinality({i \in I : Answer(resp, i) = 1})
    + 2 * Cardinality({i \in I : Answer(resp, i) = 2})
    + 3 * Cardinality({i \in I : Answer(resp, i) = 3})
    + 4 * Cardinality({i \in I : Answer(resp, i) = 4})

PartieA == 1..6

PartieB == 7..18

\* the thresholds in force: those of the configuration, else [2,3,2,2,3,3]
SeuilsEnVigueur ==
    IF "seuils_partie_a" \in DOMAIN config
    THEN config.seuils_partie_a
    ELSE <<2, 3, 2, 2, 3, 3>>

\* the Part A items at or above their threshold
PositifsA == {i \in PartieA : Answer(responses, i) >= SeuilsEnVigueur[i]}

\* the Part B items at or above 3
PositifsB == {i \in PartieB : Answer(responses, i) >= 3}

Scored == pc \in {"scored", "built"}

\* C1: for every valid response set and any thresholds, the report has
\* score_total = score_partie_a + score_partie_b and 0 <= score_total <= 72 =
\* score_max, score_partie_a being the sum of items 1..6 and score_partie_b the
\* sum of items 7..18.
C1_TotalIsSumOfParts ==
    (Scored /\ ValidResponses(responses)) =>
        /\ scores.score_total = scores.score_partie_a + scores.score_partie_b
        /\ 0 <= scores.score_total
        /\ scores.score_total <= 72
        /\ scores.score_max = 72
        /\ scores.score_partie_a = AnswerSum(responses, PartieA)
        /\ scores.score_partie_b = AnswerSum(responses, PartieB)

C1_Witness ==
    /\ Scored
    /\ ValidResponses(responses)
    /\ scores.score_partie_a = 24
    /\ scores.score_partie_b = 13
    /\ scores.score_total = 37

\* C2: screening_positif is true iff items_positifs_a >= 4, that is iff at least
\* 4 Part A items are at or above their threshold (exactly 4 gives true, exactly
\* 3 false), whatever the Part B responses are.
C2_ScreeningIffFourPositives ==
    (Scored /\ ValidResponses(responses)) =>
        /\ scores.screening_positif = (scores.items_positifs_a >= 4)
        /\ scores.screening_positif = (Cardinality(PositifsA) >= 4)
        /\ Cardinality(PositifsA) = 4 => scores.screening_positif = TRUE
        /\ Cardinality(PositifsA) = 3 => scores.screening_positif = FALSE

C2_Witness ==
    /\ Scored
    /\ ValidResponses(responses)
    /\ Cardinality(PositifsA) = 4
    /\ scores.screening_positif = TRUE
    /\ Cardinality(PositifsB) = 0

\* C3: items_positifs_a is the number of items 1..6 whose response is >= the
\* item's configured threshold and items_positifs_b the number of items 7..18
\* whose response is >= 3, whatever the configuration: a response equal to its
\* threshold counts, a response one below does not.
C3_InclusiveThresholds ==
    (Scored /\ ValidResponses(responses)) =>
        /\ scores.items_positifs_a = Cardinality(PositifsA)
        /\ scores.items_positifs_b = Cardinality(PositifsB)
        /\ \A i \in PartieA :
             /\ Answer(responses, i) = SeuilsEnVigueur[i] => i \in PositifsA
             /\ Answer(responses, i) = SeuilsEnVigueur[i] - 1 => i \notin PositifsA

C3_Witness ==
    /\ Scored
    /\ ValidResponses(responses)
    /\ "seuils_partie_a" \in DOMAIN config
    /\ \E i \in PartieA : Answer(responses, i) = SeuilsEnVigueur[i]
    /\ \E i \in PartieA : Answer(responses, i) = SeuilsEnVigueur[i] - 1
    /\ \E i \in PartieB : Answer(responses, i) = 3
    /\ \E i \in PartieB : Answer(responses, i) = 2
    /\ scores.items_positifs_a = 3
    /\ scores.items_positifs_b = 1

\* C4: a response set with an item absent, or a value negative or above the
\* scale, makes the calculator fail with a validation error: no report is
\* produced, nothing is assembled, and a missing item is never counted as 0.
C4_InvalidInputRejected ==
    (pc # "start" /\ ~ValidResponses(responses)) =>
        /\ event.outcome = "ValidationError"
        /\ scores = NoScores
        /\ save_data = <<>>

\* C8: score_pourcentage is 100 * score_total / 72 rounded to one decimal place
\* (0 gives 0.0, 37 gives 51.4, 72 gives 100.0); it is computed when the record
\* is built and is no field of the calculator's report.  Percentages are in
\* tenths.
C8_PercentageRoundedToOneDecimal ==
    (pc = "built" /\ ValidResponses(responses)) =>
        LET p == DictGet(save_data, "score_pourcentage", -1)
            t == DictGet(save_data, "score_total", -1)
            d == 72 * p - 1000 * t
        IN  /\ t = scores.score_total
            /\ 2 * d <= 72
            /\ 2 * d >= -72
            /\ t = 0 => p = 0
            /\ t = 37 => p = 514
            /\ t = 72 => p = 1000
            /\ "score_pourcentage" \notin DOMAIN scores

C8_Witness ==
    /\ pc = "built"
    /\ ValidResponses(responses)
    /\ scores.score_total = 37
    /\ DictGet(save_data, "score_pourcentage", -1) = 514

\* C9: without 'seuils_partie_a' in the configuration the report is the one
\* obtained with thresholds [2,3,2,2,3,3]; with it, the configured thresholds
\* decide and the default is ignored.  All 18 responses = 4 under the default
\* give items_positifs_a = 6 and screening_positif = true.
C9_DefaultThresholds ==
    (Scored /\ ValidResponses(responses)) =>
        /\ "seuils_partie_a" \notin DOMAIN config =>
             /\ scores = calculer_score_asrs(
                           responses, ConfigAvecSeuils(<<2, 3, 2, 2, 3, 3>>))
             /\ scores.items_positifs_a =
                  Cardinality({i \in PartieA :
                      Answer(responses, i) >= <<2, 3, 2, 2, 3, 3>>[i]})
             /\ responses = Uniform(4) =>
                  /\ scores.items_positifs_a = 6
                  /\ scores.screening_positif = TRUE
        /\ "seuils_partie_a" \in DOMAIN config =>
             scores.items_positifs_a =
                 Cardinality({i \in PartieA :
                     Answer(responses, i) >= config.seuils_partie_a[i]})

C9_Witness ==
    /\ Scored
    /\ "seuils_partie_a" \notin DOMAIN config
    /\ responses = Uniform(4)
    /\ scores.items_positifs_a = 6
    /\ scores.items_positifs_b = 12
    /\ scores.score_total = 72
    /\ scores.screening_positif = TRUE

----------------------------------------------------------------------------
(* The Streamlit session: main, show_consent_form, show_questionnaire *)

Pages == {"Consentement", "PRE-intervention", "POST-intervention", "Retrospectif"}

\* if 'consented' not in st.session_state: st.session_state['consented'] = False
InitSessionState(sess) ==
    IF "consented" \in DOMAIN sess THEN sess ELSE SessionSet(sess, "consented", FALSE)

\* the page of the menu: forced to the consent page until consent is given
SelectedPage(sess, widget) ==
    IF ~sess.consented THEN "Consentement" ELSE widget

\* the page main() shows: "consent" or a questionnaire type
Route(sess, page) ==
    IF page = "Consentement" \/ ~sess.consented THEN "consent"
    ELSE IF page = "PRE-intervention" THEN "pre"
    ELSE IF page = "POST-intervention" THEN "post"
    ELSE "retrospectif"

\* the date the consent form stores; the program never reads it back, and one
\* value stands for every datetime.now().isoformat() taken there
ConsentDate == "T"

\* mutant: the consent checkbox is not looked at
ShowConsentFormSubmit_Unchecked(sess, email, age, genre, consent) ==
    [session |->
        SessionSet(SessionSet(SessionSet(SessionSet(SessionSet(sess,
            "consented", TRUE), "email", email), "age", age), "genre", genre),
            "consent_date", ConsentDate),
     rerun |-> TRUE,
     messages |-> << <<"success", "consentement_enregistre">> >>]

\* the body of `if submitted:` in show_consent_form
ShowConsentFormSubmit(sess, email, age, genre, consent) ==
    IF ~consent
    THEN [session |-> sess, rerun |-> FALSE,
          messages |-> << <<"error", "consentement_requis">> >>]
    ELSE [session |->
            SessionSet(SessionSet(SessionSet(SessionSet(SessionSet(sess,
                "consented", TRUE), "email", email), "age", age), "genre", genre),
                "consent_date", ConsentDate),
          rerun |-> TRUE,
          messages |-> << <<"success", "consentement_enregistre">> >>]

\* the body of `if submitted:` in show_questionnaire, up to the save
SubmitAndSave(cfg, qtype, resp, sess, now, secr, sh, conn, fail) ==
    LET sc == calculer_score_asrs(resp, cfg)
        data == BuildSaveData(now, qtype, sess, sc, resp)
        c == connect_to_gsheet(secr, conn)
        saved == IF c.spreadsheet
                 THEN save_to_gsheet(sh, Upper(qtype), data, fail)
                 ELSE [sheets |-> sh, success |-> FALSE, appends |-> 0,
                       messages |-> <<>>]
    IN  [scores |-> sc,
         save_data |-> data,
         sheets |-> saved.sheets,
         appends |-> saved.appends,
         connected |-> c.spreadsheet,
         success |-> saved.success,
         messages |->
            c.messages \o saved.messages
            \o (IF ~c.spreadsheet THEN <<>>
                ELSE IF saved.success
                     THEN << <<"success", "reponses_enregistrees">> >>
                     ELSE << <<"warning", "erreur_enregistrement">> >>)]

\* the results section of show_questionnaire
ResultsPanel(o, resp) ==
    [results |->
        << [score_total |-> o.scores.score_total,
            score_max |-> o.scores.score_max,
            score_pourcentage |-> DictAt(o.save_data, "score_pourcentage"),
            items_positifs_a |-> o.scores.items_positifs_a,
            satisfaction |-> HasKey(resp, "satisfaction")] >>,
     messages |->
        << (IF o.scores.screening_positif
            THEN <<"warning", "symptomes_marques">>
            ELSE <<"success", "symptomes_legers">>),
           <<"info", "reponses_enregistrees">> >>]

\* mutant: a failed save ends the run before the results section
DisplayAfterSave_AbortOnFailure(o, resp) ==
    IF o.success
    THEN [results |-> ResultsPanel(o, resp).results,
          messages |-> o.messages \o ResultsPanel(o, resp).messages]
    ELSE [results |-> <<>>, messages |-> o.messages]

\* what show_questionnaire displays after the save attempt
DisplayAfterSave(o, resp) ==
    [results |-> ResultsPanel(o, resp).results,
     messages |-> o.messages \o ResultsPanel(o, resp).messages]

----------------------------------------------------------------------------
(* Inputs of the session *)

\* what a respondent types into the consent form: email, age, genre
ConsentInputs ==
    { <<"", 25, "Prefere ne pas dire">>, <<"a@example.org", 5, "Femme">> }

\* the 18 radio answers of a submission: untouched, and one with exactly four
\* Part A items at 4
AppAnswers ==
    { [i \in 1..NbItems |-> 0],
      [i \in 1..NbItems |-> IF i <= 4 THEN ScaleLen - 1 ELSE IF i = 7 THEN 3 ELSE 0] }

\* the qualitative widgets at their defaults
DefaultExtra ==
    [satisfaction |-> 5, amelioration |-> "Beaucoup aggraves", commentaires |-> ""]

\* the configurations of a deployment: without and with 'seuils_partie_a'
AppConfigs == {ConfigSansSeuils, ConfigAvecSeuils(<<3, 2, 3, 3, 2, 2>>)}

Init ==
    /\ config \in AppConfigs
    /\ session = EmptySession
    /\ pageWidget = "Consentement"
    /\ radioShown = FALSE
    /\ screen = BlankScreen
    /\ secrets \in SUBSET SecretKeys
    /\ sheets = NoSheets
    /\ clock = 0
    /\ event = [kind |-> "none"]
    /\ responses = <<>>
    /\ scores = NoScores
    /\ save_data = <<>>
    /\ appends = NoAppends
    /\ pc = "app"

\* a run of main() that handles no form submission
RenderPage(sess, widget) ==
    [page |-> Route(sess, SelectedPage(sess, widget)), messages |-> <<>>,
     results |-> <<>>]

\* the script runs with no widget changed (first load, rerun)
LoadPage ==
    /\ pc = "app"
    /\ session' = InitSessionState(session)
    /\ screen' = RenderPage(session', pageWidget)
    /\ radioShown' = session'.consented
    /\ event' = [kind |-> "none"]
    /\ responses' = <<>>
    /\ scores' = NoScores
    /\ save_data' = <<>>
    /\ UNCHANGED <<config, pageWidget, secrets, sheets, clock, appends, pc>>

\* the respondent picks a page in the sidebar radio
SelectPage ==
    /\ pc = "app"
    /\ radioShown
    /\ \E p \in Pages :
         /\ p # pageWidget
         /\ pageWidget' = p
    /\ session' = InitSessionState(session)
    /\ screen' = RenderPage(session', pageWidget')
    /\ radioShown' = session'.consented
    /\ event' = [kind |-> "none"]
    /\ responses' = <<>>
    /\ scores' = NoScores
    /\ save_data' = <<>>
    /\ UNCHANGED <<config, secrets, sheets, clock, appends, pc>>

\* the respondent submits the consent form
SubmitConsent ==
    /\ pc = "app"
    /\ screen.page = "consent"
    /\ \E in \in ConsentInputs, consent \in BOOLEAN :
         LET s1 == InitSessionState(session)
             r == ShowConsentFormSubmit(s1, in[1], in[2], in[3], consent)
         IN  /\ Route(s1, SelectedPage(s1, pageWidget)) = "consent"
             /\ session' = r.session
             /\ event' = [kind |-> "consent_form", consent |-> consent]
             /\ IF r.rerun
                THEN \* st.rerun(): main() runs again from the top
                     /\ screen' = RenderPage(r.session, pageWidget)
                     /\ radioShown' = r.session.consented
                ELSE /\ screen' = [page |-> "consent", messages |-> r.messages,
                                   results |-> <<>>]
                     /\ radioShown' = s1.consented
    /\ responses' = <<>>
    /\ scores' = NoScores
    /\ save_data' = <<>>
    /\ UNCHANGED <<config, pageWidget, secrets, sheets, clock, appends, pc>>

\* what the environment does during one submission: the connection outcome and
\* the first failing call of the save
SubmissionOutcomes ==
    {<<"exception", "none">>} \cup {<<"ok", f>> : f \in SaveFailures}

\* the respondent submits the questionnaire form
SubmitQuestionnaire ==
    /\ pc = "app"
    /\ screen.page \in QuestionnaireTypes
    /\ clock < MaxSubmissions
    /\ session' = InitSessionState(session)
    /\ \E answers \in AppAnswers, env \in SubmissionOutcomes :
         \E qtype \in {Route(session', SelectedPage(session', pageWidget))} :
         \E resp \in {FormResponses(config, qtype, answers, DefaultExtra)} :
         \E o \in {SubmitAndSave(config, qtype, resp, session', clock + 1, secrets,
                                 sheets, env[1], env[2])} :
         \E shown \in {DisplayAfterSave(o, resp)} :
             /\ qtype \in QuestionnaireTypes
             /\ responses' = resp
             /\ scores' = o.scores
             /\ save_data' = o.save_data
             /\ sheets' = o.sheets
             /\ appends' = [t \in DOMAIN appends \cup {Stamp(clock + 1)} |->
                              IF t = Stamp(clock + 1) THEN o.appends ELSE appends[t]]
             /\ event' = [kind |-> "questionnaire_form", connected |-> o.connected,
                          saved |-> o.success]
             /\ screen' = [page |-> qtype, messages |-> shown.messages,
                           results |-> shown.results]
    /\ radioShown' = session'.consented
    /\ clock' = clock + 1
    /\ UNCHANGED <<config, pageWidget, secrets, pc>>

Next == LoadPage \/ SelectPage \/ SubmitConsent \/ SubmitQuestionnaire

Spec == Init /\ [][Next]_vars

----------------------------------------------------------------------------
(* Properties of the session *)

Consented == "consented" \in DOMAIN session /\ session.consented

ScoreFields ==
    {"score_total", "score_partie_a", "score_partie_b", "items_positifs_a",
     "items_positifs_b", "screening_positif"}

FailureWarnings ==
    { <<"warning", "no_credentials">>, <<"warning", "no_url">>,
      <<"warning", "exception">>, <<"warning", "erreur_enregistrement">> }

\* the cells of the values rows stamped t, as <<title, row number>>
RowsStamped(t) ==
    {tk \in UNION {{<<title, k>> : k \in 1..Len(sheets[title])} :
                     title \in DOMAIN sheets} :
        sheets[tk[1]][tk[2]][1] = t}

\* C5: when the connection cannot be obtained or the append fails, the
\* submission still completes: the record carries the score fields of the
\* computed report, the results are displayed, and the failure is a warning
\* beside them.
C5_PersistenceFailureIsolated ==
    (event.kind = "questionnaire_form" /\ ~event.saved) =>
        /\ \A k \in ScoreFields :
             HasKey(save_data, k) /\ DictAt(save_data, k) = scores[k]
        /\ DictAt(save_data, "score_pourcentage") = ScorePourcentage(scores)
        /\ scores.score_total = AnswerSum(responses, 1..18)
        /\ scores.items_positifs_a = Cardinality(PositifsA)
        /\ screen.page \in QuestionnaireTypes
        /\ Len(screen.results) = 1
        /\ screen.results[1].score_total = scores.score_total
        /\ screen.results[1].items_positifs_a = scores.items_positifs_a
        /\ screen.results[1].score_pourcentage = ScorePourcentage(scores)
        /\ \E i \in 1..Len(screen.messages) : screen.messages[i] \in FailureWarnings

C5_Witness ==
    /\ event.kind = "questionnaire_form"
    /\ event.connected
    /\ ~event.saved
    /\ appends[Stamp(clock)] = 1
    /\ Len(screen.results) = 1
    /\ screen.results[1].score_total = 19

\* C6: a submission makes at most one attempt to append its record: no retry
\* after a failed save, and never two rows for one submission.
C6_SingleAppendAttempt ==
    \A n \in 1..clock :
        /\ Stamp(n) \in DOMAIN appends
        /\ appends[Stamp(n)] <= 1
        /\ Cardinality(RowsStamped(Stamp(n))) <= appends[Stamp(n)]

C6_Witness ==
    /\ clock = 2
    /\ appends[Stamp(1)] = 1
    /\ RowsStamped(Stamp(1)) = {}
    /\ Cardinality(RowsStamped(Stamp(2))) = 1

\* the header of the sheet of a questionnaire type: the keys of its records
HeaderOf(qtype) ==
    DictKeys(BuildSaveData(0, qtype, EmptySession,
                           calculer_score_asrs(<<>>, config),
                           FormResponses(config, qtype, [i \in 1..NbItems |-> 0],
                                         DefaultExtra)))

\* C7: a sheet that holds rows starts with the header row (the keys of the
\* first record), written once, and every later row is one record's values in
\* the column order of the header.
C7_HeaderThenAlignedRows ==
    \A qtype \in QuestionnaireTypes :
        (Upper(qtype) \in DOMAIN sheets /\ Len(sheets[Upper(qtype)]) >= 1) =>
            LET rows == sheets[Upper(qtype)]
            IN  /\ rows[1][1] = "timestamp"
                /\ rows[1] = HeaderOf(qtype)
                /\ \A k \in 2..Len(rows) :
                     /\ Len(rows[k]) = Len(rows[1])
                     /\ rows[k][1] # "timestamp"
                     /\ rows[k][2] = qtype

\* C10: a questionnaire page is shown, scored or saved only with
\* session_state['consented'] True; 'consented' becomes True only by a consent
\* form submitted with the checkbox ticked, which also stores email, age and
\* genre, and once True it is never reset.
C10_ConsentGating ==
    /\ [](screen.page \in QuestionnaireTypes => Consented)
    /\ [](event.kind = "questionnaire_form" => Consented)
    /\ []((clock > 0 \/ DOMAIN sheets # {}) => Consented)
    /\ [][/\ Consented => Consented'
          /\ (~Consented /\ Consented') =>
                /\ event'.kind = "consent_form"
                /\ event'.consent
                /\ \E in \in ConsentInputs :
                     /\ session'.email = in[1]
                     /\ session'.age = in[2]
                     /\ session'.genre = in[3]]_vars

C10_Witness ==
    /\ Consented
    /\ session.email = "a@example.org"
    /\ screen.page = "retrospectif"
    /\ event.kind = "questionnaire_form"
    /\ event.saved
    /\ Len(sheets["RETROSPECTIF"]) = 2

====
